---- MODULE Spec2Model ----
(***************************************************************************)
(* GraphDB Query Frontend: the SPARQL client (SPARQLClient), the storage   *)
(* utilities (Storage) and the application object (GraphDBApp) as a state  *)
(* machine.  JavaScript values are modelled as tagged records: a field     *)
(* that is absent from an object is absent from the record's DOMAIN.       *)
(***************************************************************************)
EXTENDS Integers, Sequences, FiniteSets, TLC

VARIABLES
    storage,            \* localStorage item under the key 'query-history'
    storageReadable,    \* FALSE: localStorage.getItem throws
    queryHistory,       \* GraphDBApp.queryHistory
    currentResults,     \* GraphDBApp.currentResults
    currentPage,        \* GraphDBApp.currentPage
    lastExecutedQuery,  \* GraphDBApp.lastExecutedQuery
    executing,          \* execute button disabled / editor read-only
    loading,            \* loading indicator active
    inflight,           \* executeQuery calls suspended at `await query(...)`
    nextId,             \* number of requests dispatched so far
    now,                \* logical clock behind new Date()
    call,               \* a direct SPARQLClient.query call and how it settled
    seen,               \* failure outcomes returned so far, by response class
    last                \* what the latest handler did (history variable)

vars == <<storage, storageReadable, queryHistory, currentResults, currentPage,
          lastExecutedQuery, executing, loading, inflight, nextId, now, call,
          seen, last>>

(***************************************************************************)
(* Bounds of the model and constants of the program                        *)
(***************************************************************************)
MaxRequests == 2
MaxRecords == 3
MaxCalls == 2
PageSize == 50
HistoryLimit == 50
BigRows == 120

(***************************************************************************)
(* JavaScript values                                                       *)
(***************************************************************************)
Undefined == "undefined"
UndefinedV == [t |-> "undefined"]
NullV == [t |-> "null"]
EmptyObjV == [t |-> "obj"]
ArrV(items) == [t |-> "arr", items |-> items]

Has(o, k) == k \in DOMAIN o
\* !v for a tagged value: undefined and null are falsy, objects and arrays truthy
Falsy(v) == v.t \in {"undefined", "null"}
\* o[k] of a tagged object, undefined when the key is absent
Prop(o, k) == IF Has(o, k) THEN o[k] ELSE UndefinedV
Range(s) == {s[i] : i \in 1..Len(s)}
Min(a, b) == IF a < b THEN a ELSE b
\* faulty variant: the quotient is rounded down
Ceil_Floor(n, d) == n \div d

\* Math.ceil(n / d) for n >= 0, d > 0
Ceil(n, d) == (n + d - 1) \div d

(***************************************************************************)
(* Strings are sequences of one-character strings                          *)
(***************************************************************************)
UpperChars == <<"A","B","C","D","E","F","G","H","I","J","K","L","M",
                "N","O","P","Q","R","S","T","U","V","W","X","Y","Z">>
LowerChars == <<"a","b","c","d","e","f","g","h","i","j","k","l","m",
                "n","o","p","q","r","s","t","u","v","w","x","y","z">>
IsSpace(c) == c \in {" ", "\n", "\t"}
LowerChar(c) ==
    IF \E i \in 1..Len(UpperChars) : UpperChars[i] = c
    THEN LowerChars[CHOOSE i \in 1..Len(UpperChars) : UpperChars[i] = c]
    ELSE c
ToLowerCase(s) == [i \in 1..Len(s) |-> LowerChar(s[i])]
RECURSIVE TrimStart(_)
TrimStart(s) == IF s # <<>> /\ IsSpace(Head(s)) THEN TrimStart(Tail(s)) ELSE s
RECURSIVE TrimEnd(_)
TrimEnd(s) ==
    IF s # <<>> /\ IsSpace(s[Len(s)]) THEN TrimEnd(SubSeq(s, 1, Len(s) - 1)) ELSE s
Trim(s) == TrimEnd(TrimStart(s))
StartsWith(s, p) == Len(s) >= Len(p) /\ SubSeq(s, 1, Len(p)) = p
CountChar(s, c) == Cardinality({i \in 1..Len(s) : s[i] = c})

KwSelect == <<"s","e","l","e","c","t">>
KwConstruct == <<"c","o","n","s","t","r","u","c","t">>
KwAsk == <<"a","s","k">>
KwDescribe == <<"d","e","s","c","r","i","b","e">>
KwInsert == <<"i","n","s","e","r","t">>
KwDelete == <<"d","e","l","e","t","e">>
KwWith == <<"w","i","t","h">>

(***************************************************************************)
(* SPARQLClient: validateQuery, getQueryType                               *)
(***************************************************************************)
ValidPrefixes ==
    {KwSelect, KwConstruct, KwAsk, KwDescribe, KwInsert, KwDelete, KwWith}

ValidateQuery(sparql) ==
    IF Trim(sparql) = <<>>
    THEN [valid |-> FALSE, error |-> "Query cannot be empty"]
    ELSE IF ~ \E prefix \in ValidPrefixes :
                StartsWith(ToLowerCase(Trim(sparql)), prefix)
    THEN [valid |-> FALSE,
          error |-> "Query must start with a valid SPARQL keyword"]
    ELSE IF CountChar(sparql, "{") # CountChar(sparql, "}")
    THEN [valid |-> FALSE, error |-> "Mismatched curly brackets in query"]
    ELSE [valid |-> TRUE]

GetQueryType(sparql) ==
    LET trimmed == ToLowerCase(Trim(sparql)) IN
    IF sparql = <<>> THEN "unknown"
    ELSE IF StartsWith(trimmed, KwSelect) THEN "select"
    ELSE IF StartsWith(trimmed, KwConstruct) THEN "construct"
    ELSE IF StartsWith(trimmed, KwAsk) THEN "ask"
    ELSE IF StartsWith(trimmed, KwDescribe) THEN "describe"
    ELSE IF StartsWith(trimmed, KwInsert) THEN "insert"
    ELSE IF StartsWith(trimmed, KwDelete) THEN "delete"
    ELSE "unknown"

(***************************************************************************)
(* SPARQLClient.query.  A response of the proxy is                         *)
(*   [net |-> "reject", msg]            fetch rejected: no response        *)
(*   [net |-> "http", status, body]     body: [t |-> "malformed"] when     *)
(*                                      response.json() rejects, else the  *)
(*                                      parsed value (null or an object)   *)
(***************************************************************************)
\* `if (!sparql || !sparql.trim()) throw`
QueryThrows(sparql) == Trim(sparql) = <<>>

ResponseOk(resp) == resp.status >= 200 /\ resp.status <= 299

HttpMessage(status) ==
    CASE status = 404 -> "HTTP 404: Not Found"
      [] status = 500 -> "HTTP 500: Internal Server Error"
      [] OTHER -> "HTTP"

\* s1 || s2 on strings, s1 possibly absent
StrOr(o, k, dflt) == IF Has(o, k) /\ o[k] # "" THEN o[k] ELSE dflt

FailureOutcome(sparql, message, executionTime) ==
    [success |-> FALSE, error |-> message,
     executionTime |-> executionTime, query |-> sparql]

SuccessOutcome(sparql, data, executionTime) ==
    [success |-> TRUE, results |-> Prop(data, "results"),
     executionTime |-> executionTime, query |-> sparql]

TypeErrorMessage == "Cannot read properties of null"

\* true when the `!response.ok` branch throws data.detail || `HTTP ...`
NotOkBranch(resp) == ~ResponseOk(resp)

\* true when the `!data.success` branch throws data.message || 'Query failed'
NotSuccessBranch(data) == ~(Has(data, "success") /\ data.success)

\* the value query() resolves to once fetch has settled
QueryOutcome(sparql, resp, executionTime) ==
    IF resp.net = "reject"
    THEN FailureOutcome(sparql, resp.msg, executionTime)
    ELSE IF resp.body.t = "malformed"
    THEN FailureOutcome(sparql, "Unexpected token < in JSON", executionTime)
    ELSE IF resp.body.t = "null"
    THEN FailureOutcome(sparql, TypeErrorMessage, executionTime)
    ELSE IF NotOkBranch(resp)
    THEN FailureOutcome(sparql,
            StrOr(resp.body, "detail", HttpMessage(resp.status)), executionTime)
    ELSE IF NotSuccessBranch(resp.body)
    THEN FailureOutcome(sparql,
            StrOr(resp.body, "message", "Query failed"), executionTime)
    ELSE SuccessOutcome(sparql, resp.body, executionTime)

(***************************************************************************)
(* SPARQLClient: formatResults and its three formatters.  A formatter that *)
(* raises a TypeError yields Thrown.                                       *)
(***************************************************************************)
Thrown == [threw |-> TRUE]
IsThrown(r) == Has(r, "threw")

FormatSelectResults(results, executionTime) ==
    IF Falsy(results) \/ Falsy(Prop(results, "results"))
       \/ ~Has(results.results, "bindings")
    THEN [success |-> TRUE, type |-> "select", headers |-> <<>>, rows |-> <<>>,
          count |-> 0, executionTime |-> executionTime]
    ELSE IF Falsy(Prop(results, "head")) THEN Thrown
    ELSE LET bindings == results.results.bindings
             headers == IF Has(results.head, "vars") THEN results.head.vars
                        ELSE <<>>
             rows == [i \in 1..Len(bindings) |->
                        [header \in Range(headers) |->
                            IF Has(bindings[i], header)
                            THEN bindings[i][header].value ELSE ""]]
         IN  [success |-> TRUE, type |-> "select", headers |-> headers,
              rows |-> rows, count |-> Len(rows),
              executionTime |-> executionTime, raw |-> results]

FormatAskResults(results, executionTime) ==
    IF Falsy(results) THEN Thrown
    ELSE [success |-> TRUE, type |-> "ask",
          result |-> (Has(results, "boolean") /\ results.boolean),
          executionTime |-> executionTime, raw |-> results]

\* faulty variant: the triples are never counted
FormatGraphResults_NoCount(results, executionTime) ==
    [success |-> TRUE, type |-> "graph", triples |-> results, count |-> 0,
     executionTime |-> executionTime, raw |-> results]

FormatGraphResults(results, executionTime) ==
    [success |-> TRUE, type |-> "graph", triples |-> results,
     count |-> IF results.t = "arr" THEN Len(results.items) ELSE 0,
     executionTime |-> executionTime, raw |-> results]

FormatResults(queryResult) ==
    IF ~queryResult.success
    THEN [success |-> FALSE, error |-> queryResult.error,
          executionTime |-> queryResult.executionTime]
    ELSE LET results == queryResult.results
             queryType == GetQueryType(queryResult.query)
         IN  CASE queryType = "select" ->
                    FormatSelectResults(results, queryResult.executionTime)
               [] queryType = "ask" ->
                    FormatAskResults(results, queryResult.executionTime)
               [] queryType \in {"construct", "describe"} ->
                    FormatGraphResults(results, queryResult.executionTime)
               [] OTHER ->
                    [success |-> TRUE, type |-> queryType, data |-> results,
                     executionTime |-> queryResult.executionTime]

(***************************************************************************)
(* Storage.get / Storage.set over one localStorage item.  An item is       *)
(*   [t |-> "absent"]        getItem returns null                          *)
(*   [t |-> "empty"]         the empty string                              *)
(*   [t |-> "garbage"]       text that JSON.parse rejects                  *)
(*   [t |-> "json", v]       text that parses to the value v               *)
(***************************************************************************)
AbsentItem == [t |-> "absent"]
EmptyItem == [t |-> "empty"]
GarbageItem == [t |-> "garbage"]
JsonItem(v) == [t |-> "json", v |-> v]

\* JSON.stringify drops the keys whose value is undefined
JsonOfEntry(e) ==
    IF Has(e, "type") /\ e.type = Undefined
    THEN [k \in DOMAIN e \ {"type"} |-> e[k]]
    ELSE e

JsonOf(value) ==
    IF value.t = "arr"
    THEN ArrV([i \in 1..Len(value.items) |-> JsonOfEntry(value.items[i])])
    ELSE value

StorageGet(item, readable, defaultValue) ==
    IF ~readable THEN defaultValue
    ELSE IF item.t \in {"absent", "empty"} THEN defaultValue
    ELSE IF item.t = "garbage" THEN defaultValue
    ELSE item.v

\* faulty variant: the save is skipped
StorageSet_Skipped(item, value, writable) == item

\* writable = FALSE: localStorage.setItem throws and the catch swallows it
StorageSet(item, value, writable) ==
    IF writable THEN JsonItem(JsonOf(value)) ELSE item

(***************************************************************************)
(* GraphDBApp.addToQueryHistory                                            *)
(***************************************************************************)
\* faulty variant: the item count of the outcome is not copied
HistoryEntry_NoCount(query, results, timestamp) ==
    [query |-> query,
     timestamp |-> timestamp,
     success |-> results.success,
     executionTime |-> results.executionTime,
     type |-> IF Has(results, "type") THEN results.type ELSE Undefined,
     count |-> 0]

HistoryEntry(query, results, timestamp) ==
    [query |-> query,
     timestamp |-> timestamp,
     success |-> results.success,
     executionTime |-> results.executionTime,
     type |-> IF Has(results, "type") THEN results.type ELSE Undefined,
     count |-> IF Has(results, "count") THEN results.count ELSE 0]

\* `this.queryHistory.length` of null and `.unshift` of a plain object raise
RecordThrows(history) == history.t # "arr"

\* faulty variant: drops a query already anywhere in the history
IsConsecutiveDuplicate_Anywhere(items, query) ==
    \E i \in 1..Len(items) : items[i].query = query

\* faulty variant: no record is ever taken for a duplicate
IsConsecutiveDuplicate_Never(items, query) == FALSE

IsConsecutiveDuplicate(items, query) ==
    Len(items) > 0 /\ items[1].query = query

\* faulty variant: push instead of unshift
Unshift_Push(items, entry) == items \o <<entry>>

Unshift(items, entry) == <<entry>> \o items

\* faulty variant: the cut keeps one entry too many
KeepLast_OneMore(items) ==
    IF Len(items) > HistoryLimit + 1
    THEN SubSeq(items, 1, HistoryLimit + 1) ELSE items

KeepLast(items) ==
    IF Len(items) > HistoryLimit THEN SubSeq(items, 1, HistoryLimit) ELSE items

\* the history, the stored item and how the call ended
AddToQueryHistory(history, item, query, results, timestamp, writable) ==
    IF RecordThrows(history)
    THEN [threw |-> TRUE, dup |-> FALSE, history |-> history, item |-> item]
    ELSE IF IsConsecutiveDuplicate(history.items, query)
    THEN [threw |-> FALSE, dup |-> TRUE, history |-> history, item |-> item]
    ELSE LET kept == KeepLast(Unshift(history.items,
                                      HistoryEntry(query, results, timestamp)))
         IN  [threw |-> FALSE, dup |-> FALSE, history |-> ArrV(kept),
              item |-> StorageSet(item, ArrV(kept), writable)]

(***************************************************************************)
(* GraphDBApp.goToPage                                                     *)
(***************************************************************************)
HasRows(results) == results # NullV /\ Has(results, "rows")

TotalPages(results) == Ceil(Len(results.rows), PageSize)

\* faulty variant: the upper limit is not checked
PageInRange_NoUpper(page, totalPages) == ~(page < 1)

PageInRange(page, totalPages) == ~(page < 1 \/ page > totalPages)

\* faulty variant: the requested page is taken as it is
GoToPage_Unchecked(results, current, page) == page

GoToPage(results, current, page) ==
    IF ~HasRows(results) THEN current
    ELSE IF ~PageInRange(page, TotalPages(results)) THEN current
    ELSE page

(***************************************************************************)
(* Inputs: query texts, proxy responses, stored items                      *)
(***************************************************************************)
TxEmpty == <<>>
TxBlank == <<" ", " ">>
TxSelect == <<" ", "S", "E", "L", "E", "C", "T">>
TxAsk == <<"A", "S", "K">>
TxDescribe == <<"d", "e", "s", "c", "r", "i", "b", "e">>
TxFoo == <<"f", "o", "o">>
TxOpen == <<"a", "s", "k", "{">>
AppTexts == {TxEmpty, TxBlank, TxSelect, TxAsk, TxDescribe, TxFoo, TxOpen}

SelectPayload(variables, bindings) ==
    [t |-> "obj",
     head |-> [t |-> "obj", vars |-> variables],
     results |-> [t |-> "obj", bindings |-> bindings]]
RowsPayload(n) ==
    SelectPayload(<<"s">>,
        [i \in 1..n |-> [t |-> "obj", s |-> [value |-> ToString(i)]]])
AskPayload(b) == [t |-> "obj", boolean |-> b]
GraphPayload == ArrV(<<"triple1", "triple2">>)

Rejected == [net |-> "reject", msg |-> "Failed to fetch"]
Http(status, body) == [net |-> "http", status |-> status, body |-> body]
Malformed == [t |-> "malformed"]
Succeeded(payload) == Http(200, [t |-> "obj", success |-> TRUE, results |-> payload])

AppPayloads == {RowsPayload(BigRows), AskPayload(TRUE), GraphPayload}
AppResponses ==
    {Rejected,
     Http(200, [t |-> "obj", success |-> FALSE, message |-> "Parse error"]),
     Http(200, [t |-> "obj", success |-> TRUE])}
    \cup {Succeeded(payload) : payload \in AppPayloads}

\* a history this program wrote in an earlier session: n entries, newest first
StoredEntry(i) ==
    IF i % 2 = 1
    THEN [query |-> Trim(TxSelect), timestamp |-> 0 - i, success |-> TRUE,
          executionTime |-> 3, type |-> "select", count |-> 1]
    ELSE [query |-> TxAsk, timestamp |-> 0 - i, success |-> FALSE,
          executionTime |-> 5, count |-> 0]
OwnHistory(n) == ArrV([i \in 1..n |-> StoredEntry(i)])

AppItems == {AbsentItem}

(***************************************************************************)
(* GraphDBApp constructor                                                  *)
(***************************************************************************)
\* faulty variant: the page is kept when a result is installed
FirstPage_Kept == currentPage

\* `this.currentPage = 1`
FirstPage == 1

Idle == [st |-> "idle"]
Started == [op |-> "init", path |-> "", arg |-> 0, page |-> 1, q |-> <<>>,
            dup |-> FALSE, threw |-> FALSE, writable |-> TRUE]

InitWith(items, readable) ==
    /\ storage \in items
    /\ storageReadable \in readable
    /\ queryHistory = StorageGet(storage, storageReadable, ArrV(<<>>))
    /\ currentResults = NullV
    /\ currentPage = 1
    /\ lastExecutedQuery = Undefined
    /\ executing = FALSE
    /\ loading = FALSE
    /\ inflight = {}
    /\ nextId = 0
    /\ now = 0
    /\ call = Idle
    /\ seen = {}
    /\ last = Started

Init == InitWith(AppItems, {TRUE})

(***************************************************************************)
(* GraphDBApp.executeQuery, up to `await this.sparqlClient.query(sparql)`  *)
(***************************************************************************)
ExecuteQuery(text) ==
    LET sparql == Trim(text) IN
    IF sparql = <<>>
    THEN \* a warning is shown and the editor focused: no state changes
         UNCHANGED vars
    ELSE IF ~ValidateQuery(sparql).valid
    THEN \* the validation error is shown: no state changes
         UNCHANGED vars
    ELSE /\ nextId < MaxRequests
         /\ ~QueryThrows(sparql)
         /\ loading' = TRUE
         /\ executing' = TRUE
         /\ nextId' = nextId + 1
         /\ inflight' = inflight \cup
                {[id |-> nextId + 1, sparql |-> sparql, startTime |-> now]}
         /\ last' = [Started EXCEPT !.op = "execute", !.path = "dispatched",
                                  !.q = sparql, !.page = currentPage,
                                  !.arg = nextId + 1]
         /\ UNCHANGED <<storage, storageReadable, queryHistory, currentResults,
                        currentPage, lastExecutedQuery, now, call, seen>>

(***************************************************************************)
(* GraphDBApp.executeQuery, from the resumption of the await to its end    *)
(***************************************************************************)
QueryCompletes(req, resp, writable) ==
    LET time == now + 1
        result == QueryOutcome(req.sparql, resp, time - req.startTime)
        formatted == FormatResults(result)
        failed == [success |-> FALSE, error |-> result.error,
                   executionTime |-> result.executionTime]
        recorded == AddToQueryHistory(queryHistory, storage, req.sparql,
                        IF result.success THEN formatted ELSE failed,
                        time, writable)
        done == [Started EXCEPT !.op = "complete", !.q = req.sparql,
                                !.page = currentPage, !.arg = req.id]
    IN
    /\ req \in inflight
    /\ inflight' = inflight \ {req}
    /\ now' = time
    /\ loading' = FALSE
    /\ executing' = FALSE
    /\ IF result.success /\ IsThrown(formatted)
       THEN \* formatResults raised: the catch block only displays the error
            /\ last' = [done EXCEPT !.path = "exception", !.threw = TRUE]
            /\ UNCHANGED <<storage, queryHistory, currentResults, currentPage,
                           lastExecutedQuery>>
       ELSE /\ IF result.success
               THEN /\ currentResults' = formatted
                    /\ currentPage' = FirstPage
                    /\ lastExecutedQuery' = req.sparql
               ELSE UNCHANGED <<currentResults, currentPage, lastExecutedQuery>>
            /\ queryHistory' = recorded.history
            /\ storage' = recorded.item
            /\ last' = [done EXCEPT
                            !.path = IF result.success THEN "success" ELSE "failure",
                            !.dup = recorded.dup, !.threw = recorded.threw]
    /\ UNCHANGED <<storageReadable, nextId, call, seen>>

(***************************************************************************)
(* Pagination handlers (bindEvents) and goToPage                           *)
(***************************************************************************)
GoToPageCall(page) ==
    /\ currentPage' = GoToPage(currentResults, currentPage, page)
    /\ last' = [Started EXCEPT !.op = "goToPage", !.arg = page,
                              !.page = currentPage]
    /\ UNCHANGED <<storage, storageReadable, queryHistory, currentResults,
                   lastExecutedQuery, executing, loading, inflight, nextId, now,
                   call, seen>>

PrevPage == GoToPageCall(currentPage - 1)
NextPage == GoToPageCall(currentPage + 1)

Next ==
    \/ \E text \in AppTexts : ExecuteQuery(text)
    \/ \E req \in inflight, resp \in AppResponses, writable \in BOOLEAN :
            QueryCompletes(req, resp, writable)
    \/ PrevPage
    \/ NextPage

Spec == Init /\ [][Next]_vars

(***************************************************************************)
(* The history on its own: the constructor's load from any stored item,    *)
(* then addToQueryHistory calls                                            *)
(***************************************************************************)
HistoryItems ==
    {AbsentItem, EmptyItem, GarbageItem, JsonItem(NullV), JsonItem(EmptyObjV),
     JsonItem(OwnHistory(HistoryLimit - 1)), JsonItem(OwnHistory(HistoryLimit))}

\* "SELECT" and "select" differ: the comparison is exact
RecordQueries == {Trim(TxSelect), KwSelect, TxAsk}

\* what executeQuery passes: a formatted result, or the failure summary
RecordResults ==
    {[success |-> TRUE, type |-> "select", count |-> 2, executionTime |-> 4],
     [success |-> FALSE, error |-> "Failed to fetch", executionTime |-> 0]}

InitHistory == InitWith(HistoryItems, BOOLEAN)

AddToQueryHistoryCall(query, results, writable) ==
    LET recorded == AddToQueryHistory(queryHistory, storage, query, results,
                                      now + 1, writable)
    IN
    /\ now < MaxRecords
    /\ now' = now + 1
    /\ queryHistory' = recorded.history
    /\ storage' = recorded.item
    /\ last' = [Started EXCEPT !.op = "record", !.q = query,
                               !.dup = recorded.dup, !.threw = recorded.threw,
                               !.writable = writable,
                               !.arg = IF queryHistory.t = "arr"
                                       THEN Len(queryHistory.items) ELSE 0]
    /\ UNCHANGED <<storageReadable, currentResults, currentPage,
                   lastExecutedQuery, executing, loading, inflight, nextId,
                   call, seen>>

NextHistory ==
    \E query \in RecordQueries, results \in RecordResults, writable \in BOOLEAN :
        AddToQueryHistoryCall(query, results, writable)

SpecHistory == InitHistory /\ [][NextHistory]_vars

(***************************************************************************)
(* The client on its own: SPARQLClient.query called with any text          *)
(***************************************************************************)
ClientTexts == {TxEmpty, TxBlank, TxSelect, TxAsk}

ClientResponses ==
    {Rejected,
     Http(500, Malformed),
     Http(500, NullV),
     Http(500, [t |-> "obj", detail |-> "Query failed"]),
     Http(404, EmptyObjV),
     Http(500, [t |-> "obj", success |-> TRUE, results |-> AskPayload(TRUE)]),
     Http(200, Malformed),
     Http(200, NullV),
     Http(200, EmptyObjV),
     Http(200, [t |-> "obj", success |-> FALSE]),
     Http(200, [t |-> "obj", success |-> FALSE, message |-> "Bad query"]),
     Http(200, [t |-> "obj", success |-> TRUE]),
     Succeeded(AskPayload(TRUE))}

\* the taxonomy of the specification: which kind a response belongs to
ResponseClass(resp) ==
    IF resp.net = "reject" THEN "TransportError"
    ELSE IF ~(resp.status \in 200..299) THEN "TransportError"
    ELSE IF resp.body.t # "obj" THEN "TransportError"
    ELSE IF ~(Has(resp.body, "success") /\ resp.body.success)
    THEN "ApplicationError"
    ELSE "Success"

InitClient == InitWith({AbsentItem}, {TRUE})

ClientQuery(text) ==
    /\ call.st # "pending"
    /\ nextId < MaxCalls
    /\ nextId' = nextId + 1
    /\ IF QueryThrows(text)
       THEN call' = [st |-> "threw", sparql |-> text,
                     message |-> "SPARQL query cannot be empty"]
       ELSE call' = [st |-> "pending", sparql |-> text, startTime |-> now]
    /\ last' = [Started EXCEPT !.op = "query", !.q = text]
    /\ UNCHANGED <<storage, storageReadable, queryHistory, currentResults,
                   currentPage, lastExecutedQuery, executing, loading, inflight,
                   now, seen>>

ClientSettles(resp) ==
    LET outcome == QueryOutcome(call.sparql, resp, now + 1 - call.startTime) IN
    /\ call.st = "pending"
    /\ now' = now + 1
    /\ call' = [st |-> "returned", sparql |-> call.sparql, resp |-> resp,
                outcome |-> outcome]
    /\ seen' = IF outcome.success THEN seen
               ELSE seen \cup {<<ResponseClass(resp), outcome>>}
    /\ last' = [Started EXCEPT !.op = "settle", !.q = call.sparql]
    /\ UNCHANGED <<storage, storageReadable, queryHistory, currentResults,
                   currentPage, lastExecutedQuery, executing, loading, inflight,
                   nextId>>

NextClient ==
    \/ \E text \in ClientTexts : ClientQuery(text)
    \/ \E resp \in ClientResponses : ClientSettles(resp)

SpecClient == InitClient /\ [][NextClient]_vars

(***************************************************************************)
(* The normalizer on its own: formatResults applied to what query returned *)
(* for any text and any answer of the proxy                                *)
(***************************************************************************)
TxAsking == <<"a", "s", "k", "i", "n", "g">>
TxSelection == <<"S", "e", "l", "e", "c", "t", "i", "o", "n">>
FormatTexts ==
    {TxSelect, KwSelect, TxSelection, TxAsk, KwAsk, TxAsking, TxOpen,
     TxDescribe, KwConstruct, KwInsert, KwDelete, KwWith, TxFoo}

\* one binding per row; the second leaves ?o unbound, the third binds nothing
SomeBindings ==
    <<[t |-> "obj", s |-> [value |-> "a"], o |-> [value |-> "b"]],
      [t |-> "obj", s |-> [value |-> "c"]],
      [t |-> "obj"]>>
HeadlessPayload ==
    [t |-> "obj", results |-> [t |-> "obj", bindings |-> SomeBindings]]
VarlessPayload ==
    [t |-> "obj", head |-> [t |-> "obj"],
     results |-> [t |-> "obj", bindings |-> SomeBindings]]
BindinglessPayload ==
    [t |-> "obj", head |-> [t |-> "obj", vars |-> <<"s", "o">>],
     results |-> [t |-> "obj"]]

FormatResponses ==
    {Rejected,
     Http(200, [t |-> "obj", success |-> TRUE]),
     Succeeded(NullV),
     Succeeded(EmptyObjV),
     Succeeded(AskPayload(TRUE)),
     Succeeded(AskPayload(FALSE)),
     Succeeded(SelectPayload(<<"s", "o">>, SomeBindings)),
     Succeeded(SelectPayload(<<"s", "o">>, <<>>)),
     Succeeded(HeadlessPayload),
     Succeeded(VarlessPayload),
     Succeeded(BindinglessPayload),
     Succeeded(GraphPayload)}

InitFormat ==
    /\ storage = AbsentItem
    /\ storageReadable = TRUE
    /\ queryHistory = StorageGet(storage, storageReadable, ArrV(<<>>))
    /\ currentResults = NullV
    /\ currentPage = 1
    /\ lastExecutedQuery = Undefined
    /\ executing = FALSE
    /\ loading = FALSE
    /\ inflight = {}
    /\ nextId = 0
    /\ now = 0
    /\ \E text \in FormatTexts, resp \in FormatResponses :
          call = [st |-> "outcome", outcome |-> QueryOutcome(text, resp, 1)]
    /\ seen = {}
    /\ last = Started

FormatResultsCall ==
    /\ call.st = "outcome"
    /\ call' = [st |-> "formatted", outcome |-> call.outcome,
                formatted |-> FormatResults(call.outcome)]
    /\ last' = [Started EXCEPT !.op = "format", !.q = call.outcome.query]
    /\ UNCHANGED <<storage, storageReadable, queryHistory, currentResults,
                   currentPage, lastExecutedQuery, executing, loading, inflight,
                   nextId, now, seen>>

NextFormat == FormatResultsCall

SpecFormat == InitFormat /\ [][NextFormat]_vars

(***************************************************************************)
(* GraphDBApp.exportResults, exportToCSV, exportToJSON and the exportToCSV *)
(* utility.  A notification is [message, type]; the download sink receives *)
(* the artifacts handed to `link.click()`.                                 *)
(***************************************************************************)
Note(message, type) == [message |-> message, type |-> type]

\* `data` of GraphDBApp.exportToCSV: one record per line of the table
CsvData(results) ==
    IF results.type = "select" /\ Has(results, "rows")
    THEN results.rows
    ELSE IF results.type = "ask"
    THEN <<[result |-> results.result]>>
    ELSE IF results.type = "graph" /\ ~Falsy(results.triples)
    THEN IF results.triples.t = "arr"
         THEN [i \in 1..Len(results.triples.items) |->
                  [index |-> i, triple |-> [json |-> results.triples.items[i]]]]
         ELSE <<[data |-> [json |-> results.triples]]>>
    ELSE <<results>>

\* the exportToCSV utility: nothing for no data, else a header line and one
\* line per record, with the keys of the first record as columns
CsvArtifacts(data) ==
    IF Len(data) = 0 THEN <<>>
    ELSE <<[mime |-> "text/csv", columns |-> DOMAIN data[1],
            lines |-> 1 + Len(data)]>>

\* faulty variant: the item count is always written as 0
ResultCount_Zero(results) == 0

\* `this.currentResults.count || 0`
ResultCount(results) ==
    IF Has(results, "count") /\ results.count # 0 THEN results.count ELSE 0

TxNA == <<"N", "/", "A">>

\* `exportData` of exportToJSON; lastExecutedQuery is assigned together with
\* currentResults, so it is a text here, and '' is the falsy text
ExportData(results, query, time) ==
    [exportedAt |-> time,
     queryType |-> results.type,
     executionTime |-> results.executionTime,
     resultCount |-> ResultCount(results),
     results |-> results,
     query |-> IF query = <<>> THEN TxNA ELSE query]

\* JSON.stringify of the document and JSON.parse of the text: a key whose
\* value is undefined is dropped, at the top level and in `results`
PayloadKeys == {"data", "triples", "raw"}
DropUndefined(o) ==
    [k \in {j \in DOMAIN o : ~(j \in PayloadKeys /\ o[j] = UndefinedV)} |-> o[k]]
JsonRoundTrip(doc) ==
    [k \in DOMAIN doc |->
        IF k = "results" THEN DropUndefined(doc.results) ELSE doc[k]]

JsonArtifacts(results, query, time) ==
    <<[mime |-> "application/json",
       parsed |-> JsonRoundTrip(ExportData(results, query, time))]>>

Exported(format, notes, sink) ==
    [op |-> "export", path |-> format, arg |-> Len(sink), page |-> currentPage,
     q |-> <<>>, dup |-> FALSE, threw |-> FALSE, writable |-> TRUE,
     notes |-> notes, sink |-> sink]

ExportResults(format) ==
    /\ IF currentResults = NullV \/ ~currentResults.success
       THEN last' = Exported(format,
                        <<Note("No results to export", "warning")>>, <<>>)
       ELSE IF format = "csv"
       THEN LET data == CsvData(currentResults) IN
            last' = Exported(format,
                        (IF Len(data) = 0
                         THEN <<Note("No data to export", "warning")>>
                         ELSE <<>>)
                        \o <<Note("Results exported as CSV", "success")>>,
                        CsvArtifacts(data))
       ELSE last' = Exported(format,
                        <<Note("Results exported as JSON", "success")>>,
                        JsonArtifacts(currentResults, lastExecutedQuery, now))
    /\ UNCHANGED <<storage, storageReadable, queryHistory, currentResults,
                   currentPage, lastExecutedQuery, executing, loading,
                   inflight, nextId, now, call, seen>>

(***************************************************************************)
(* A session with exports: executions of any display class, completions,   *)
(* and the export buttons                                                  *)
(***************************************************************************)
SessionTexts == {TxSelect, TxAsk, TxDescribe, KwInsert}
SessionResponses ==
    {Rejected,
     Http(200, [t |-> "obj", success |-> TRUE]),
     Succeeded(RowsPayload(10)),
     Succeeded(AskPayload(TRUE)),
     Succeeded(GraphPayload)}
SessionItems == {AbsentItem, JsonItem(NullV)}

InitSession == InitWith(SessionItems, {TRUE})

NextSession ==
    \/ \E text \in SessionTexts : ExecuteQuery(text)
    \/ \E req \in inflight, resp \in SessionResponses :
            QueryCompletes(req, resp, TRUE)
    \/ \E format \in {"csv", "json"} : ExportResults(format)

SpecSession == InitSession /\ [][NextSession]_vars

(***************************************************************************)
(* The client and the proxy as two parties.  `await fetch(...)` suspends   *)
(* query until the proxy has answered or the connection has failed; the    *)
(* options given to fetch are method, headers and body: config.timeout is  *)
(* never read and no abort signal or timer exists, so nothing but the      *)
(* proxy's answer resumes the call.  The event loop runs the continuation  *)
(* of an answered call (weak fairness); the proxy is not obliged to answer.*)
(***************************************************************************)
ProxyAnswers(resp) ==
    /\ call.st = "pending"
    /\ call' = [st |-> "answered", sparql |-> call.sparql,
                startTime |-> call.startTime, resp |-> resp]
    /\ last' = [Started EXCEPT !.op = "answer", !.q = call.sparql]
    /\ UNCHANGED <<storage, storageReadable, queryHistory, currentResults,
                   currentPage, lastExecutedQuery, executing, loading, inflight,
                   nextId, now, seen>>

QueryResumes ==
    /\ call.st = "answered"
    /\ now' = now + 1
    /\ call' = [st |-> "returned", sparql |-> call.sparql, resp |-> call.resp,
                outcome |-> QueryOutcome(call.sparql, call.resp,
                                         now + 1 - call.startTime)]
    /\ last' = [Started EXCEPT !.op = "settle", !.q = call.sparql]
    /\ UNCHANGED <<storage, storageReadable, queryHistory, currentResults,
                   currentPage, lastExecutedQuery, executing, loading, inflight,
                   nextId, seen>>

NextClientLive ==
    \/ \E text \in ClientTexts : call.st # "answered" /\ ClientQuery(text)
    \/ \E resp \in ClientResponses : ProxyAnswers(resp)
    \/ QueryResumes

SpecClientLive ==
    InitClient /\ [][NextClientLive]_vars /\ WF_vars(QueryResumes)

(***************************************************************************)
(* GraphDBApp.displaySelectResults: the rows of the current page           *)
(***************************************************************************)
\* Array.prototype.slice(start, end) for 0 <= start, 0 <= end
Slice(s, start, end) ==
    LET b == Min(start, Len(s))
        e == Min(end, Len(s))
    IN  IF e <= b THEN <<>> ELSE SubSeq(s, b + 1, e)

\* faulty variant: the slice starts one page too far
StartIndex_NextPage(page) == page * PageSize

StartIndex(page) == (page - 1) * PageSize
EndIndex(page, length) == Min(StartIndex(page) + PageSize, length)
PaginatedRows(results, page) ==
    Slice(results.rows, StartIndex(page), EndIndex(page, Len(results.rows)))

(***************************************************************************)
(* Paging through an installed select result: the state after one          *)
(* successful execution that returned n rows, then the Previous and Next   *)
(* buttons                                                                 *)
(***************************************************************************)
InitPages ==
    \E n \in 0..BigRows :
        LET formatted == FormatSelectResults(RowsPayload(n), 1)
            recorded == AddToQueryHistory(ArrV(<<>>), AbsentItem,
                            Trim(TxSelect), formatted, 1, TRUE)
        IN  /\ storage = recorded.item
            /\ storageReadable = TRUE
            /\ queryHistory = recorded.history
            /\ currentResults = formatted
            /\ currentPage = 1
            /\ lastExecutedQuery = Trim(TxSelect)
            /\ executing = FALSE
            /\ loading = FALSE
            /\ inflight = {}
            /\ nextId = 1
            /\ now = 1
            /\ call = Idle
            /\ seen = {}
            /\ last = [Started EXCEPT !.op = "complete", !.path = "success",
                                      !.q = Trim(TxSelect), !.arg = 1]

NextPages ==
    \/ PrevPage
    \/ NextPage

SpecPages == InitPages /\ [][NextPages]_vars

(***************************************************************************)
(* The exportToCSV utility on its own: the text written for a table whose  *)
(* values are texts.  A row maps each header to a value; a header is a     *)
(* one-character name, and Object.keys of a row built by                   *)
(* formatSelectResults lists the headers in their declared order.          *)
(***************************************************************************)
Quote == "\""
Comma == ","
Newline == "\n"

\* String.prototype.replace(/"/g, '""')
RECURSIVE ReplaceQuotes(_)
ReplaceQuotes(s) ==
    IF s = <<>> THEN <<>>
    ELSE (IF Head(s) = Quote THEN <<Quote, Quote>> ELSE <<Head(s)>>)
         \o ReplaceQuotes(Tail(s))

Includes(s, c) == \E i \in 1..Len(s) : s[i] = c

EscapeField(value) ==
    LET escaped == ReplaceQuotes(value) IN
    IF Includes(escaped, Comma) THEN <<Quote>> \o escaped \o <<Quote>>
    ELSE escaped

\* Array.prototype.join
RECURSIVE Join(_, _)
Join(parts, sep) ==
    IF parts = <<>> THEN <<>>
    ELSE IF Len(parts) = 1 THEN parts[1]
    ELSE parts[1] \o <<sep>> \o Join(Tail(parts), sep)

CsvContent(headers, data) ==
    Join(<<Join([j \in 1..Len(headers) |-> <<headers[j]>>], Comma)>>
         \o [i \in 1..Len(data) |->
                Join([j \in 1..Len(headers) |->
                        EscapeField(data[i][headers[j]])], Comma)],
         Newline)

CsvHeaders == <<"s", "o">>
CsvSubjects ==
    {<<>>, <<"a">>, <<"a", Comma, "b">>, <<"a", Quote, "b", Quote>>,
     <<Quote, Comma>>, <<"a", Newline, "b">>}
CsvObjects == {<<"c">>, <<"c", Comma, Quote>>}
CsvRows == [s : CsvSubjects, o : CsvObjects]
CsvTables ==
    {<<r>> : r \in CsvRows} \cup {<<r1, r2>> : r1 \in CsvRows, r2 \in CsvRows}

InitCsv ==
    /\ storage = AbsentItem
    /\ storageReadable = TRUE
    /\ queryHistory = StorageGet(storage, storageReadable, ArrV(<<>>))
    /\ currentResults = NullV
    /\ currentPage = 1
    /\ lastExecutedQuery = Undefined
    /\ executing = FALSE
    /\ loading = FALSE
    /\ inflight = {}
    /\ nextId = 0
    /\ now = 0
    /\ \E rows \in CsvTables :
          call = [st |-> "table", headers |-> CsvHeaders, rows |-> rows]
    /\ seen = {}
    /\ last = Started

ExportToCsvCall ==
    /\ call.st = "table"
    /\ call' = [st |-> "exported", headers |-> call.headers,
                rows |-> call.rows,
                content |-> CsvContent(call.headers, call.rows)]
    /\ last' = [Started EXCEPT !.op = "exportToCSV"]
    /\ UNCHANGED <<storage, storageReadable, queryHistory, currentResults,
                   currentPage, lastExecutedQuery, executing, loading, inflight,
                   nextId, now, seen>>

NextCsv == ExportToCsvCall

SpecCsv == InitCsv /\ [][NextCsv]_vars

(***************************************************************************)
(* Validation and form inference on their own: validateQuery and           *)
(* getQueryType applied to the same text                                   *)
(***************************************************************************)
\* leading whitespace, a first word in either case, and a tail with or
\* without curly brackets
ValidateTexts ==
    LET Words == ValidPrefixes \cup {TxFoo, TxAsking}
        Upper(s) ==
            [i \in 1..Len(s) |->
                IF \E k \in 1..Len(LowerChars) : LowerChars[k] = s[i]
                THEN UpperChars[CHOOSE k \in 1..Len(LowerChars) : LowerChars[k] = s[i]]
                ELSE s[i]]
    IN  {lead \o word \o tail :
            lead \in {<<>>, <<" ", "\n">>},
            word \in Words \cup {Upper(w) : w \in Words},
            tail \in {<<>>, <<" ", "{", "}">>, <<"{">>, <<" ", "}", " ">>}}

InitValidate ==
    /\ storage = AbsentItem
    /\ storageReadable = TRUE
    /\ queryHistory = StorageGet(storage, storageReadable, ArrV(<<>>))
    /\ currentResults = NullV
    /\ currentPage = 1
    /\ lastExecutedQuery = Undefined
    /\ executing = FALSE
    /\ loading = FALSE
    /\ inflight = {}
    /\ nextId = 0
    /\ now = 0
    /\ \E text \in ValidateTexts : call = [st |-> "text", sparql |-> text]
    /\ seen = {}
    /\ last = Started

ValidateQueryCall ==
    /\ call.st = "text"
    /\ call' = [st |-> "validated", sparql |-> call.sparql,
                valid |-> ValidateQuery(call.sparql).valid,
                type |-> GetQueryType(call.sparql)]
    /\ last' = [Started EXCEPT !.op = "validate", !.q = call.sparql]
    /\ UNCHANGED <<storage, storageReadable, queryHistory, currentResults,
                   currentPage, lastExecutedQuery, executing, loading, inflight,
                   nextId, now, seen>>

NextValidate == ValidateQueryCall

SpecValidate == InitValidate /\ [][NextValidate]_vars

(***************************************************************************)
(* Endpoint configuration: the application's config, the client's copy,    *)
(* the form of the configuration panel and the stored 'graphdb-config'     *)
(***************************************************************************)
MaxTests == 2

ConfigFields == {"endpoint", "repository", "username", "password"}

DefaultConfig ==
    [t |-> "obj", endpoint |-> "http://localhost:7200",
     repository |-> "kgsde-proj", username |-> "", password |-> ""]

\* what a user may type into each field of the panel: another endpoint, a
\* user name that is empty or not; repository and password keep one value
FieldValues ==
    [endpoint |-> {"http://localhost:7200", "http://graphdb:7200"},
     repository |-> {"kgsde-proj"},
     username |-> {"", "admin"},
     password |-> {""}]

Configs ==
    {[t |-> "obj", endpoint |-> e, repository |-> r, username |-> u,
      password |-> p] :
        e \in FieldValues.endpoint, r \in FieldValues.repository,
        u \in FieldValues.username, p \in FieldValues.password}

\* { ...base, ...extra }
SpreadOver(base, extra) ==
    [k \in DOMAIN base \cup DOMAIN extra |->
        IF k \in DOMAIN extra THEN extra[k] ELSE base[k]]

\* new SPARQLClient(config): a copy of the four fields, with fallbacks
NewClientConfig(config) ==
    [t |-> "obj",
     endpoint |-> IF config.endpoint = "" THEN "http://localhost:7200"
                  ELSE config.endpoint,
     repository |-> IF config.repository = "" THEN "kgsde-proj"
                    ELSE config.repository,
     username |-> config.username,
     password |-> config.password,
     timeout |-> 30000]

UpdateConfig(clientConfig, newConfig) == SpreadOver(clientConfig, newConfig)

\* loadConfig: the saved configuration, if any, is merged into the
\* application's config and shown in the form; the client is not told
LoadConfig(config, form, item, readable) ==
    LET savedConfig == StorageGet(item, readable, NullV)
    IN  IF savedConfig # NullV
        THEN [config |-> SpreadOver(config, savedConfig),
              form |-> SpreadOver(config, savedConfig)]
        ELSE [config |-> config, form |-> form]

\* the body of a request of the client
RequestBody(clientConfig) ==
    [endpoint |-> clientConfig.endpoint,
     repository |-> clientConfig.repository,
     username |-> IF clientConfig.username = "" THEN Undefined
                  ELSE clientConfig.username,
     password |-> IF clientConfig.password = "" THEN Undefined
                  ELSE clientConfig.password]

\* the constructor followed by init: the client is made from the defaults,
\* then the saved configuration is loaded
InitConfig ==
    /\ storage \in {AbsentItem, GarbageItem} \cup {JsonItem(c) : c \in Configs}
    /\ storageReadable \in BOOLEAN
    /\ queryHistory = ArrV(<<>>)
    /\ currentResults = NullV
    /\ currentPage = 1
    /\ lastExecutedQuery = Undefined
    /\ executing = FALSE
    /\ loading = FALSE
    /\ inflight = {}
    /\ nextId = 0
    /\ now = 0
    /\ LET loaded == LoadConfig(DefaultConfig, DefaultConfig, storage,
                                storageReadable)
       IN  call = [st |-> "config", config |-> loaded.config,
                   client |-> NewClientConfig(DefaultConfig),
                   form |-> loaded.form]
    /\ seen = {}
    /\ last = [op |-> "init"]

EditForm ==
    /\ call.st = "config"
    /\ \E f \in ConfigFields : \E v \in FieldValues[f] :
          /\ call.form[f] # v
          /\ call' = [call EXCEPT !.form[f] = v]
    /\ last' = [op |-> "edit"]
    /\ UNCHANGED <<storage, storageReadable, queryHistory, currentResults,
                   currentPage, lastExecutedQuery, executing, loading, inflight,
                   nextId, now, seen>>

SaveConfig ==
    /\ call.st = "config"
    /\ \E writable \in BOOLEAN :
          LET config == SpreadOver(call.config, call.form)
          IN  /\ call' = [call EXCEPT !.config = config,
                                      !.client = UpdateConfig(call.client, config)]
              /\ storage' = StorageSet(storage, config, writable)
    /\ last' = [op |-> "saveConfig"]
    /\ UNCHANGED <<storageReadable, queryHistory, currentResults, currentPage,
                   lastExecutedQuery, executing, loading, inflight, nextId, now,
                   seen>>

\* testConnection up to its await: the form values are put into the client
\* and the test request is sent with them
TestConnectionCall ==
    /\ call.st = "config"
    /\ nextId < MaxTests
    /\ LET tempConfig == call.form
           client == UpdateConfig(call.client, tempConfig)
       IN  /\ call' = [call EXCEPT !.client = client]
           /\ inflight' = inflight \cup {[id |-> nextId, body |-> RequestBody(client)]}
    /\ nextId' = nextId + 1
    /\ loading' = TRUE
    /\ last' = [op |-> "testConnection"]
    /\ UNCHANGED <<storage, storageReadable, queryHistory, currentResults,
                   currentPage, lastExecutedQuery, executing, now, seen>>

\* testConnection after its await: the status is shown, nothing is restored
TestConnectionResumes ==
    /\ call.st = "config"
    /\ \E r \in inflight : \E connected \in BOOLEAN :
          /\ inflight' = inflight \ {r}
          /\ last' = [op |-> "tested", connected |-> connected]
    /\ loading' = FALSE
    /\ UNCHANGED <<storage, storageReadable, queryHistory, currentResults,
                   currentPage, lastExecutedQuery, executing, nextId, now, call,
                   seen>>

NextConfig ==
    \/ EditForm
    \/ SaveConfig
    \/ TestConnectionCall
    \/ TestConnectionResumes

SpecConfig == InitConfig /\ [][NextConfig]_vars

(***************************************************************************)
(* Properties                                                              *)
(***************************************************************************)
Items == queryHistory.items
RecordStep == last'.op = "record" /\ queryHistory.t = "arr"
FrontIs(query) == Len(Items) > 0 /\ Items[1].query = query

\* C1: loaded from a store this program wrote (or from none) and after any
\* sequence of addToQueryHistory calls, the history holds at most 50 entries.
HistoryBounded ==
    queryHistory.t = "arr" => Len(Items) <= HistoryLimit

\* a record call on a full history: an entry came in and the length stayed 50
HistoryCutReached ==
    /\ last.op = "record" /\ ~last.dup /\ ~last.threw
    /\ last.arg = HistoryLimit
    /\ Len(Items) = HistoryLimit

\* C2: a record call whose query text equals the front entry's text changes
\* neither the history nor the stored item; a record call with any other text
\* adds an entry for that text (on a history that is a sequence).
DedupFrame ==
    [][RecordStep =>
        IF FrontIs(last'.q)
        THEN queryHistory' = queryHistory /\ storage' = storage
        ELSE /\ queryHistory'.t = "arr"
             /\ Len(queryHistory'.items) = Min(Len(Items) + 1, HistoryLimit)
             /\ queryHistory'.items[1].query = last'.q
             /\ queryHistory'.items[1].timestamp = now']_vars

\* the same text recorded twice in a row: the second call was dropped
DuplicateDropped ==
    /\ last.op = "record" /\ last.dup
    /\ now >= 2
    /\ Items[1].query = last.q /\ Items[1].timestamp = now - 1

\* C3 (as claimed): every completed execution leaves an entry for its query at
\* the front of the history, unless its text duplicates the front entry.
EveryCompletionRecorded ==
    last.op = "complete" =>
        \/ last.dup
        \/ /\ Len(Items) > 0
           /\ Items[1].query = last.q
           /\ Items[1].timestamp = now

\* C4: a non-duplicate record puts the new entry at index 0, moves every
\* earlier entry back by one in the same order, drops only the oldest entries
\* beyond 50, and leaves the history newest first.
MostRecentFirst ==
    [][(RecordStep /\ ~FrontIs(last'.q)) =>
        LET old == Items
            new == queryHistory'.items
        IN  /\ new[1].query = last'.q
            /\ new[1].timestamp = now'
            /\ Len(new) = Min(Len(old) + 1, HistoryLimit)
            /\ \A i \in 2..Len(new) : new[i] = old[i - 1]
            /\ \A i \in 1..(Len(new) - 1) :
                    new[i].timestamp >= new[i + 1].timestamp]_vars

\* a record on a full history: the former front is second, the oldest is gone
OldestDropped ==
    /\ last.op = "record" /\ ~last.dup /\ last.arg = HistoryLimit
    /\ Items[1].query = last.q
    /\ Items[2].timestamp = 0 - 1
    /\ Items[HistoryLimit].timestamp = 0 - (HistoryLimit - 1)

HistoryChanged == last.op = "record" /\ ~last.dup /\ ~last.threw

\* C5 (as claimed): after every record call that changes the history, the item
\* stored under 'query-history' is the in-memory history.
AlwaysFlushed ==
    HistoryChanged => storage = JsonItem(JsonOf(queryHistory))

\* C5 (amended): a record call that changes the history stores the serialised
\* in-memory history when localStorage.setItem succeeds, and leaves the stored
\* item as it was when setItem throws.
FlushedUnlessWriteFails ==
    [][(RecordStep /\ ~FrontIs(last'.q)) =>
        IF last'.writable
        THEN storage' = JsonItem(JsonOf(queryHistory'))
        ELSE storage' = storage]_vars

\* a failed execution's entry was recorded and flushed without its `type` key
FlushedEntry ==
    /\ HistoryChanged /\ last.writable
    /\ storage = JsonItem(JsonOf(queryHistory))
    /\ Items[1].type = Undefined
    /\ ~Has(storage.v.items[1], "type")

\* C6 (as claimed): whatever is stored under the history key, the loaded
\* history is a sequence, empty when the item is unreadable or corrupt, and
\* record calls on it succeed.
LoadedHistoryUsable ==
    /\ queryHistory.t = "arr"
    /\ ((last.op = "init" /\ (~storageReadable \/ storage.t # "json"
                              \/ storage.v.t # "arr")) => Items = <<>>)
    /\ (last.op = "record" => ~last.threw)

\* pageCount() of the specification: the least number of pages of PageSize
\* rows that hold every row; none for a result that is not tabular
PageCount ==
    IF HasRows(currentResults)
    THEN CHOOSE k \in 0..Len(currentResults.rows) :
            /\ k * PageSize >= Len(currentResults.rows)
            /\ (k = 0 \/ (k - 1) * PageSize < Len(currentResults.rows))
    ELSE 0

\* C7: goToPage(n) leaves the current page unchanged when n < 1 or
\* n > pageCount(), and sets it to n otherwise; with 120 rows, goToPage(4) on
\* page 3 leaves the page at 3.
GoToPageFrame ==
    last.op = "goToPage" =>
        IF last.arg < 1 \/ last.arg > PageCount
        THEN currentPage = last.page
        ELSE currentPage = last.arg

GoToFourOnThree ==
    /\ last.op = "goToPage" /\ last.arg = 4 /\ last.page = 3
    /\ HasRows(currentResults) /\ Len(currentResults.rows) = BigRows
    /\ PageCount = 3
    /\ currentPage = 3

EmptyQueryReturnsFailure ==
    (call.st # "idle" /\ Trim(call.sparql) = <<>>) =>
        /\ call.st = "returned"
        /\ ~call.outcome.success
        /\ inflight = {}

\* C10 (as claimed): a returned outcome is a Success exactly for a response
\* that is neither a TransportError nor an ApplicationError, and no failure
\* outcome is returned for responses of both kinds.
OutcomeClassified ==
    /\ call.st = "returned" =>
          (call.outcome.success <=> ResponseClass(call.resp) = "Success")
    /\ \A a, b \in seen : a[1] # b[1] => a[2] # b[2]

\* C11 (as claimed): a query call never raises: whatever the text and whatever
\* the transport does, it settles by returning an outcome that carries a
\* success flag and an elapsed time.
QueryNeverRaises ==
    /\ call.st # "threw"
    /\ call.st = "returned" =>
          Has(call.outcome, "success") /\ Has(call.outcome, "executionTime")

\* the raw payload of a successful outcome, seen as the specification sees it
Payload == call.outcome.results
DeclaredVars ==
    IF ~Falsy(Payload) /\ Has(Payload, "head") /\ Has(Payload.head, "vars")
    THEN Payload.head.vars ELSE <<>>
DeclaredBindings ==
    IF ~Falsy(Payload) /\ Has(Payload, "results")
       /\ Has(Payload.results, "bindings")
    THEN Payload.results.bindings ELSE <<>>
\* the first keyword of a query text: the letters up to the first character
\* that is not a letter, after leading whitespace, in lower case
RECURSIVE LetterRun(_)
LetterRun(s) ==
    IF s # <<>> /\ Head(s) \in Range(LowerChars)
    THEN <<Head(s)>> \o LetterRun(Tail(s)) ELSE <<>>
FirstKeyword(text) == LetterRun(ToLowerCase(Trim(text)))
Formatted(form) ==
    /\ call.st = "formatted"
    /\ call.outcome.success
    /\ FirstKeyword(call.outcome.query) = form

\* C12 (as claimed): for a select query and any successful response with
\* declared variables v and bindings b, the normalizer does not raise, yields
\* one row per binding in the same order, and every row has exactly the keys
\* of v, an unbound variable being mapped to the empty string.
SelectRowsTotal ==
    Formatted(KwSelect) =>
        /\ ~IsThrown(call.formatted)
        /\ call.formatted.success
        /\ Len(call.formatted.rows) = Len(DeclaredBindings)
        /\ \A i \in 1..Len(DeclaredBindings) :
              /\ DOMAIN call.formatted.rows[i] = Range(DeclaredVars)
              /\ \A v \in Range(DeclaredVars) :
                    call.formatted.rows[i][v] =
                        IF Has(DeclaredBindings[i], v)
                        THEN DeclaredBindings[i][v].value ELSE ""

\* C13 (as claimed): for an ask query, a successful response is normalized to
\* a successful Boolean result and never raises; its value is the payload's
\* boolean field, and false when the field or the whole payload is absent.
AskDefaultsFalse ==
    Formatted(KwAsk) =>
        /\ ~IsThrown(call.formatted)
        /\ call.formatted.success
        /\ call.formatted.type = "ask"
        /\ call.formatted.result =
              IF ~Falsy(Payload) /\ Has(Payload, "boolean")
              THEN Payload.boolean ELSE FALSE

\* the form the specification gives a text: the name of its first keyword when
\* that is one of the six known keywords, unknown otherwise
KnownForms == {KwSelect, KwConstruct, KwAsk, KwDescribe, KwInsert, KwDelete}
FormName(kw) ==
    CASE kw = KwSelect -> "select"
      [] kw = KwConstruct -> "construct"
      [] kw = KwAsk -> "ask"
      [] kw = KwDescribe -> "describe"
      [] kw = KwInsert -> "insert"
      [] kw = KwDelete -> "delete"
      [] OTHER -> "unknown"
FormOfFirstKeyword(text) ==
    IF FirstKeyword(text) \in KnownForms
    THEN FormName(FirstKeyword(text)) ELSE "unknown"

\* C14 (as claimed): the inferred form is the one of the text's first keyword,
\* whatever its case and leading whitespace; a text whose first keyword is not
\* one of the six (such as a word that only begins with 'ask' or 'select') is
\* unknown, and an unknown form is normalized to the passthrough result that
\* carries the raw payload unchanged.
FormByFirstKeyword ==
    (call.st = "formatted" /\ call.outcome.success) =>
        /\ GetQueryType(call.outcome.query) =
              FormOfFirstKeyword(call.outcome.query)
        /\ FormOfFirstKeyword(call.outcome.query) = "unknown" =>
              /\ ~IsThrown(call.formatted)
              /\ call.formatted.success
              /\ call.formatted.type = "unknown"
              /\ call.formatted.data = Payload

ExportStep(format) == last.op = "export" /\ last.path = format
Installed == currentResults # NullV /\ currentResults.success
ReportedFailed ==
    /\ \E i \in 1..Len(last.notes) : last.notes[i].type \in {"warning", "error"}
    /\ \A i \in 1..Len(last.notes) : last.notes[i].type # "success"

\* C15 (as claimed): a CSV export of a result whose derived row set is empty
\* (a successful select with no rows) hands nothing to the download sink and
\* is reported as failed, never as successful.
EmptyExportFails ==
    (ExportStep("csv") /\ Installed /\ Len(CsvData(currentResults)) = 0) =>
        /\ last.sink = <<>>
        /\ ReportedFailed

\* C16 (as claimed): when an execution fails at the transport, its outcome is
\* a failure, the history holds an entry with success false for its query,
\* and, while no successful result has been installed, every export attempt
\* is refused and hands nothing to the download sink.
TransportFailureScenario ==
    /\ (last.op = "complete" /\ last.path = "failure") =>
          /\ queryHistory.t = "arr"
          /\ Len(Items) > 0
          /\ Items[1].query = last.q
          /\ ~Items[1].success
    /\ (last.op = "export" /\ currentResults = NullV) =>
          /\ last.sink = <<>>
          /\ ReportedFailed

InstallStep == last'.op = "complete" /\ last'.path = "success"

\* C17: a JSON export of an installed result always hands one document to the
\* download sink; parsed back, its resultCount is the number of rows of a
\* Tabular result and the number of triples of a Graph result, its query is
\* the text of the execution that installed the result, and its
\* executionTime is that result's elapsed time.
StructuredRoundTrip ==
    [][/\ InstallStep => lastExecutedQuery' = last'.q
       /\ ~InstallStep => UNCHANGED <<currentResults, lastExecutedQuery>>
       /\ (last'.op = "export" /\ last'.path = "json" /\ Installed) =>
             /\ Len(last'.sink) = 1
             /\ \A i \in 1..Len(last'.notes) : last'.notes[i].type = "success"
             /\ LET doc == last'.sink[1].parsed IN
                /\ doc.query = lastExecutedQuery
                /\ doc.executionTime = currentResults.executionTime
                /\ currentResults.type = "select" =>
                      doc.resultCount = Len(currentResults.rows)
                /\ (currentResults.type = "graph"
                    /\ currentResults.triples.t = "arr") =>
                      doc.resultCount = Len(currentResults.triples.items)]_vars

\* a JSON export of a ten-row select: the parsed document counts ten items
TabularDocument ==
    /\ ExportStep("json") /\ Installed
    /\ currentResults.type = "select" /\ Len(currentResults.rows) = 10
    /\ last.sink[1].parsed.resultCount = 10
    /\ last.sink[1].parsed.query = Trim(TxSelect)

\* C18 (as claimed): at most one query request is outstanding at any time,
\* and completions are processed in the order their requests were issued: no
\* request issued earlier is still outstanding when a completion is handled.
OneRequestInFlight ==
    /\ Cardinality(inflight) <= 1
    /\ last.op = "complete" => \A req \in inflight : req.id > last.arg

\* C19 (as claimed): every dispatched query eventually completes with an
\* outcome, also when the proxy never answers.
QueryEventuallySettles ==
    (call.st = "pending") ~> (call.st = "returned")

RECURSIVE PagesUpTo(_)
PagesUpTo(n) ==
    IF n = 0 THEN <<>>
    ELSE PagesUpTo(n - 1) \o PaginatedRows(currentResults, n)

\* C20: the rows shown for the current page n of a non-empty tabular result
\* are the rows at indices [(n-1)*50, min(n*50, totalRows)) in their original
\* order, and the pages 1..pageCount() put end to end are the row sequence:
\* no row is shown twice and none is skipped.
PageShowsItsRows ==
    (HasRows(currentResults) /\ Len(currentResults.rows) > 0) =>
        LET rows == currentResults.rows
            shown == PaginatedRows(currentResults, currentPage)
            lo == (currentPage - 1) * PageSize
            hi == Min(currentPage * PageSize, Len(rows))
        IN  /\ Len(shown) = hi - lo
            /\ \A i \in 1..Len(shown) : shown[i] = rows[lo + i]
            /\ PagesUpTo(PageCount) = rows

\* 120 rows, page 3 reached with the Next button: rows [100,120) are shown
LastPageOfBigRows ==
    /\ last.op = "goToPage" /\ currentPage = 3
    /\ HasRows(currentResults) /\ Len(currentResults.rows) = 120
    /\ PaginatedRows(currentResults, 3) = SubSeq(currentResults.rows, 101, 120)
    /\ PaginatedRows(currentResults, 3)[1].s = "101"

\* C21: the page count of a tabular result is ceil(totalRows / 50), the least
\* number of pages of 50 rows that hold every row: it is 0 only for a result
\* with no rows, at least 1 for every other, and 3 for 120 rows.
PageCountIsCeil ==
    HasRows(currentResults) =>
        LET totalRows == Len(currentResults.rows)
            totalPages == TotalPages(currentResults)
        IN  /\ totalPages * PageSize >= totalRows
            /\ totalPages > 0 => (totalPages - 1) * PageSize < totalRows
            /\ totalPages = 0 <=> totalRows = 0
            /\ totalRows > 0 => totalPages >= 1
            /\ totalRows = 120 => totalPages = 3

\* 120 rows: goToPage(3) was accepted because the page count is 3
ThreePagesOfBigRows ==
    /\ last.op = "goToPage" /\ last.arg = 3 /\ last.page = 2
    /\ HasRows(currentResults) /\ Len(currentResults.rows) = 120
    /\ TotalPages(currentResults) = 3
    /\ currentPage = 3

NormalizedAs(type) ==
    /\ call.st = "formatted"
    /\ call.outcome.success
    /\ ~IsThrown(call.formatted)
    /\ call.formatted.type = type

\* C22: the item count of a normalized result agrees with its sequence: the
\* count of a Tabular result is its number of rows; a Graph result wraps the
\* payload as it is, and its count is the number of triples when the payload
\* is a sequence and 0 when it is not.
CountMatchesSequence ==
    /\ NormalizedAs("select") =>
          call.formatted.count = Len(call.formatted.rows)
    /\ NormalizedAs("graph") =>
          /\ call.formatted.triples = Payload
          /\ call.formatted.count =
                IF Payload.t = "arr" THEN Len(Payload.items) ELSE 0

\* a describe answered by a sequence of two triples: the count is 2
TwoTriplesCounted ==
    /\ NormalizedAs("graph")
    /\ Payload = GraphPayload
    /\ call.formatted.count = 2
    /\ call.formatted.triples.items = <<"triple1", "triple2">>

\* the number of items of a normalized result, counted on its sequence
ItemsOf(results) ==
    IF results.type = "select" THEN Len(results.rows)
    ELSE IF results.type = "graph" /\ results.triples.t = "arr"
    THEN Len(results.triples.items)
    ELSE 0
RecordedStep ==
    /\ last'.op = "complete" /\ last'.path \in {"success", "failure"}
    /\ ~last'.dup /\ ~last'.threw

\* C23: the entry recorded for a completed execution carries the executed
\* query text and the summary of the outcome just produced: for a success its
\* success flag, elapsed time, display class and item count are those of the
\* installed result; for a failure its success flag is false and its elapsed
\* time is that of the failed outcome.
EntrySummarizesOutcome ==
    [][RecordedStep =>
        LET entry == queryHistory'.items[1] IN
        /\ entry.query = last'.q
        /\ entry.timestamp = now'
        /\ \E req \in inflight :
              /\ req.id = last'.arg
              /\ req.sparql = entry.query
              /\ entry.executionTime = now' - req.startTime
        /\ IF last'.path = "success"
           THEN /\ entry.success
                /\ entry.executionTime = currentResults'.executionTime
                /\ entry.type = currentResults'.type
                /\ entry.count = ItemsOf(currentResults')
           ELSE /\ ~entry.success
                /\ entry.type = Undefined
                /\ entry.count = 0]_vars

\* a select answered with 10 bindings: the entry says 'select', 10 items
TenRowsSummarized ==
    /\ last.op = "complete" /\ last.path = "success" /\ ~last.dup
    /\ queryHistory.t = "arr"
    /\ Items[1].query = Trim(TxSelect)
    /\ Items[1].success
    /\ Items[1].type = "select"
    /\ Items[1].count = 10
    /\ Len(currentResults.rows) = 10

\* the lines of a text: its parts between line breaks
RECURSIVE SplitLines(_)
SplitLines(s) ==
    IF ~Includes(s, Newline) THEN <<s>>
    ELSE LET k == CHOOSE i \in 1..Len(s) :
                    s[i] = Newline /\ \A j \in 1..(i - 1) : s[j] # Newline
         IN  <<SubSeq(s, 1, k - 1)>> \o SplitLines(SubSeq(s, k + 1, Len(s)))

\* a value as the specification escapes it: every double quote doubled, the
\* field enclosed in double quotes when the value contains a comma
RECURSIVE Doubled(_)
Doubled(s) ==
    IF s = <<>> THEN <<>>
    ELSE IF Head(s) = Quote THEN <<Quote, Quote>> \o Doubled(Tail(s))
    ELSE <<Head(s)>> \o Doubled(Tail(s))
Escaped(value) ==
    IF Includes(value, Comma) THEN <<Quote>> \o Doubled(value) \o <<Quote>>
    ELSE Doubled(value)
FieldsOf(row, headers) ==
    Join([j \in 1..Len(headers) |-> Escaped(row[headers[j]])], Comma)

\* C24 (as claimed): the text exported for a Tabular result has one line for
\* the headers and one line per result row, and the line of a row is its
\* values in the order of the declared headers, each with its double quotes
\* doubled and enclosed in double quotes when it contains a comma.
FlatTableLines ==
    call.st = "exported" =>
        LET lines == SplitLines(call.content) IN
        /\ Len(lines) = 1 + Len(call.rows)
        /\ lines[1] = <<"s", Comma, "o">>
        /\ \A i \in 1..Len(call.rows) :
              lines[i + 1] = FieldsOf(call.rows[i], call.headers)

\* C25: in every reachable state the current page is at least 1, and at most
\* pageCount() when the installed result is a tabular result with rows,
\* whatever the interleaving of executions, completions and page requests.
PageWithinRange ==
    /\ currentPage >= 1
    /\ (HasRows(currentResults) /\ Len(currentResults.rows) > 0) =>
          currentPage <= PageCount

\* page 3 of 120 rows was shown when an execution failed: the page stays 3
FailureOnLastPage ==
    /\ last.op = "complete" /\ last.path = "failure" /\ last.page = 3
    /\ HasRows(currentResults) /\ Len(currentResults.rows) = 120
    /\ currentPage = 3 /\ PageCount = 3

\* an execution that ended in the failure branch or in the catch block
FailedStep ==
    /\ last'.op = "complete"
    /\ (last'.path \in {"failure", "exception"} \/ last'.threw)

\* C26 (as claimed): an execution that returns a failure or ends in an
\* exception leaves the installed result, the current page and the last
\* executed query text unchanged, and an export is let through (not refused
\* with 'No results to export') exactly when a successful result is installed.
FailureKeepsInstalled ==
    [][/\ FailedStep =>
             UNCHANGED <<currentResults, currentPage, lastExecutedQuery>>
       /\ last'.op = "export" =>
             (last'.notes[1].message # "No results to export" <=> Installed)]_vars

\* C28 (as claimed): the execute control is disabled, the editor read-only
\* and the loading indicator shown exactly while a query request is
\* outstanding; the state is never cleared while a request is outstanding.
ExecutingTracksInFlight ==
    /\ executing <=> inflight # {}
    /\ loading <=> inflight # {}

\* C29: in a history grown from the empty history by record calls, also by
\* those that cut it to 50 entries, no two adjacent entries have the same
\* query text.
NoAdjacentDuplicates ==
    queryHistory.t = "arr" =>
        \A i \in 1..(Len(Items) - 1) : Items[i].query # Items[i + 1].query

\* two records of the same text after another text, on a full history: the
\* second was dropped, the first sits in front of a different text
RepeatOnFullHistory ==
    /\ last.op = "record" /\ last.dup /\ last.arg = HistoryLimit
    /\ now >= 2
    /\ Len(Items) = HistoryLimit
    /\ Items[1].query = last.q /\ Items[1].timestamp = now - 1
    /\ Items[2].query # last.q

Balanced(text) == CountChar(text, "{") = CountChar(text, "}")

\* C30 (as claimed): every text that validateQuery accepts is given a form
\* other than 'unknown' by getQueryType, and every text whose first keyword
\* is one of the six query keywords and whose curly brackets balance is
\* accepted by validateQuery.
ValidationAgreesWithForm ==
    call.st = "validated" =>
        /\ call.valid => call.type # "unknown"
        /\ (FirstKeyword(call.sparql) \in KnownForms /\ Balanced(call.sparql))
              => call.valid

\* C27 (as claimed): the four fields of the client's configuration always
\* equal those of the application's configuration: after startup with a
\* saved configuration, after saveConfig and after testConnection.
ClientFollowsAppConfig ==
    call.st = "config" =>
        \A f \in ConfigFields : call.client[f] = call.config[f]

====
